---- MODULE Spec2Model ----
(***************************************************************************)
(* The streaming chat client of learning-chatbot.                          *)
(*                                                                         *)
(*   api/client.ts   streamChat: fetch + read loop + line parser           *)
(*   hooks/useChat   the chat session: messages, loading, error, abortRef  *)
(*   components/Chat handleSubmit, the Stop button, Clear History          *)
(*                                                                         *)
(* Two specifications share the transport operators:                       *)
(*   SpecTransport   one streamChat call against an arbitrary network (the *)
(*                   body cut into fragments at any byte) and an arbitrary *)
(*                   caller of the cancel handle; the callbacks are logged *)
(*   Spec            the mounted Chat component: user intents, history and *)
(*                   clear requests, and the streams its sends start       *)
(* Text is a sequence of one-character strings; a body is a sequence of    *)
(* bytes, an ASCII byte written as its character and the two bytes of      *)
(* U+00E9 written "C3" and "A9".                                           *)
(***************************************************************************)
EXTENDS Integers, Sequences, FiniteSets, TLC

VARIABLES
    \* ---- the Chat component and its useChat state (Spec)
    kbId,        \* the kbId prop of the mounted Chat component
    messages,    \* useState<LocalMessage[]>
    loading,     \* useState(false)
    error,       \* useState<string | null>
    abortRef,    \* useRef: NoStream for null, else the slot of the stream whose
                 \* cancel handle it holds, or Settled
    streams,     \* the streamChat calls under way, each with its closure
    now,         \* the last value Date.now() returned
    histReqs,    \* getChatHistory requests in flight
    clearReqs,   \* clearChatHistory requests in flight
    server,      \* the backend's persisted history per knowledge base
    quiet,       \* the stream of the last accepted send while nothing but that
                 \* stream has acted since, else NoStream
    steps,       \* how many steps the session has taken
    \* ---- one streamChat call on its own (SpecTransport)
    wire,        \* the bytes the response body will deliver
    pos,         \* how many of them the reader has delivered
    conn,        \* the call's transport state
    evlog,       \* the onEvent calls made, in order
    errlog,      \* the onError calls made, in order
    cancels,     \* how often the cancel handle was called
    cut,         \* whether a fragment has ended inside a line, inside a character
    resp,        \* <<>>, or <<the response fetch resolved with>>
    \* ---- sendMessage called on its own (SpecSend)
    call,        \* <<>>, or <<the text sendMessage is called with>>
    \* ---- the useQuiz hook on its own (SpecQuiz)
    state        \* useState<QuizState>

vars == <<kbId, messages, loading, error, abortRef, streams, now,
          histReqs, clearReqs, server, quiet, steps,
          wire, pos, conn, evlog, errlog, cancels, cut, resp, call, state>>

sessionVars == <<kbId, messages, loading, error, abortRef, streams, now,
                 histReqs, clearReqs, server, quiet, steps>>

transportVars == <<wire, pos, conn, evlog, errlog, cancels, cut, resp, call>>

quizVars == <<state>>

\* null for a string-valued state, and for abortRef, whose streams count from 1.
Null == "null"

NoStream == 0

\* ------------------------------------------------------------------ bounds

\* SpecTransport: complete lines in a body, and calls of the cancel handle.
MaxLines == 2

MaxCancels == 2

\* Spec: streamChat calls under way at once, the last value of Date.now(),
\* history and clear requests under way at once, and the steps of a behaviour.
MaxStreams == 2

MaxClock == 1

MaxPending == 2

MaxClears == 1

MaxSteps == 8

\* ------------------------------------------------------------ text helpers

HasPrefix(s, p) == Len(s) >= Len(p) /\ SubSeq(s, 1, Len(p)) = p

HasSuffix(s, p) == Len(s) >= Len(p) /\ SubSeq(s, Len(s) - Len(p) + 1, Len(s)) = p

Slice(s, n) == SubSeq(s, n + 1, Len(s))

RECURSIVE Flatten(_)
Flatten(ss) == IF ss = <<>> THEN <<>> ELSE Head(ss) \o Flatten(Tail(ss))

\* ------------------------------------------------------ the wire protocol

NL == "\n"

DataPrefix == <<"d", "a", "t", "a", ":", " ">>

ChunkOpen == <<"{", "\"", "t", "y", "p", "e", "\"", ":", "\"", "c", "h", "u", "n", "k", "\"", ",", "\"", "d", "a", "t", "a", "\"", ":", "\"">>

ChunkClose == <<"\"", "}">>

DoneJSON == <<"{", "\"", "t", "y", "p", "e", "\"", ":", "\"", "d", "o", "n", "e", "\"", "}">>

SourcesJSON == <<"{", "\"", "t", "y", "p", "e", "\"", ":", "\"", "s", "o", "u", "r", "c", "e", "s", "\"", ",", "\"", "d", "a", "t", "a", "\"", ":", "[", "{", "\"", "c", "o", "n", "t", "e", "n", "t", "\"", ":", "\"", "c", "\"", ",", "\"", "d", "o", "c", "u", "m", "e", "n", "t", "_", "i", "d", "\"", ":", "\"", "d", "\"", "}", "]", "}">>

SSESourcesEvent(list) == [type |-> "sources", data |-> list]

SSEChunkEvent(text) == [type |-> "chunk", data |-> text]

SSEDoneEvent == [type |-> "done"]

\* A ChatSource is opaque to the client: one token per source.
ChatSourceCD == "{content:c,document_id:d}"

\* ------------------------------------------------------------ TextDecoder

IsLead(b) == b = "C3"

IsCont(b) == b = "A9"

Replacement == "FFFD"

CodePoint(lead, cont) == IF lead = "C3" /\ cont = "A9" THEN "E9" ELSE Replacement

\* UTF-8 decoding of bytes after the bytes pending from the previous call; an
\* incomplete character at the end stays pending. Each byte yields the character
\* it completes, the replacement character if it is malformed, or nothing.
DecodeFrom(value, pending) ==
    LET all == pending \o value
        n == Len(all)
        held == n > 0 /\ IsLead(all[n])
        mark(i) ==
            IF IsLead(all[i])
            THEN IF i = n THEN "" ELSE IF IsCont(all[i + 1]) THEN "" ELSE Replacement
            ELSE IF IsCont(all[i])
            THEN IF i > 1 /\ IsLead(all[i - 1]) THEN CodePoint(all[i - 1], all[i])
                 ELSE Replacement
            ELSE all[i]
    IN  [chars   |-> SelectSeq([i \in 1..n |-> mark(i)], LAMBDA c : c # ""),
         pending |-> IF held THEN <<all[n]>> ELSE <<>>]

\* decoder.decode(value, { stream }): without stream an incomplete character at
\* the end is replaced and nothing stays pending.
TextDecoderDecode(pending, value, stream) ==
    LET r == DecodeFrom(value, pending) IN
    IF stream THEN r
    ELSE [chars   |-> r.chars \o (IF r.pending # <<>> THEN <<Replacement>> ELSE <<>>),
          pending |-> <<>>]

DecodeEachChunkAlone(pending, value) == TextDecoderDecode(pending, value, FALSE)

Decode(pending, value) == TextDecoderDecode(pending, value, TRUE)

\* ------------------------------------------------------------- JSON.parse

IsStringBody(s) == \A i \in 1..Len(s) : s[i] \notin {"\"", "\\", NL}

\* JSON.parse on the texts of this protocol: the three frame shapes parse, any
\* other text met here (a cut frame, free text) is a SyntaxError.
JSONParse(s) ==
    IF s = DoneJSON THEN [ok |-> TRUE, value |-> SSEDoneEvent]
    ELSE IF s = SourcesJSON THEN [ok |-> TRUE, value |-> SSESourcesEvent(<<ChatSourceCD>>)]
    ELSE IF /\ HasPrefix(s, ChunkOpen)
            /\ HasSuffix(s, ChunkClose)
            /\ Len(s) >= Len(ChunkOpen) + Len(ChunkClose)
            /\ IsStringBody(SubSeq(s, Len(ChunkOpen) + 1, Len(s) - Len(ChunkClose)))
         THEN [ok |-> TRUE,
               value |-> SSEChunkEvent(SubSeq(s, Len(ChunkOpen) + 1, Len(s) - Len(ChunkClose)))]
    ELSE [ok |-> FALSE, value |-> SSEDoneEvent]

\* ------------------------------------------------- streamChat: the parser

\* The position of the n-th newline of s.
NthNewline(s, n) ==
    CHOOSE i \in 1..Len(s) : s[i] = NL /\ Cardinality({j \in 1..i : s[j] = NL}) = n

\* buffer.split('\n'): the pieces between newlines, always at least one.
Split(s) ==
    LET k == Cardinality({i \in 1..Len(s) : s[i] = NL})
        from(j) == IF j = 1 THEN 1 ELSE NthNewline(s, j - 1) + 1
        to(j) == IF j = k + 1 THEN Len(s) ELSE NthNewline(s, j) - 1
    IN  [j \in 1..(k + 1) |-> SubSeq(s, from(j), to(j))]

SyntaxError == [name |-> "SyntaxError", message |-> "Unexpected token"]

\* The body of the for loop for one line: the onEvent calls it makes and what it
\* throws (the try/catch around JSON.parse swallows the SyntaxError).
ParseLineThrows(line) ==
    IF HasPrefix(line, DataPrefix)
    THEN LET r == JSONParse(Slice(line, Len(DataPrefix))) IN
         IF r.ok THEN [events |-> <<r.value>>, thrown |-> <<>>]
         ELSE [events |-> <<>>, thrown |-> <<SyntaxError>>]
    ELSE [events |-> <<>>, thrown |-> <<>>]

ParseLine(line) ==
    IF HasPrefix(line, DataPrefix)
    THEN LET r == JSONParse(Slice(line, Len(DataPrefix))) IN
         IF r.ok THEN [events |-> <<r.value>>, thrown |-> <<>>]
         ELSE [events |-> <<>>, thrown |-> <<>>]
    ELSE [events |-> <<>>, thrown |-> <<>>]

\* The for loop: the lines in order, up to the first one that throws.
RECURSIVE ParseLines(_)
ParseLines(lines) ==
    IF lines = <<>> THEN [events |-> <<>>, thrown |-> <<>>]
    ELSE LET h == ParseLine(Head(lines)) IN
         IF h.thrown # <<>> THEN h
         ELSE LET r == ParseLines(Tail(lines)) IN
              [events |-> h.events \o r.events, thrown |-> r.thrown]

\* lines.pop() || '' with the lines left in the array.
PopDropsResidue(pieces) ==
    [lines |-> SubSeq(pieces, 1, Len(pieces) - 1), buffer |-> <<>>]

PopFlushesAll(pieces) == [lines |-> pieces, buffer |-> <<>>]

PopLast(pieces) ==
    [lines |-> SubSeq(pieces, 1, Len(pieces) - 1), buffer |-> pieces[Len(pieces)]]

\* ------------------------------------------------------ useQuiz: values

MaxQuestions == 3

\* The state useQuiz starts in and resetQuiz returns to; quiz is <<>> for null,
\* and answers maps a question id to Null while it has no entry.
NoQuiz ==
    [quiz |-> <<>>, currentIndex |-> 0,
     answers |-> [q \in 1..MaxQuestions |-> Null], submitted |-> FALSE]

\* The answers a question may be given, and the correct one of question i.
Answers == {"t", "f"}

CorrectAnswer(i) == IF i % 2 = 1 THEN "t" ELSE "f"

\* A Quiz of n questions, as far as the hook reads it.
Quiz(n) ==
    [id |-> n,
     questions |-> [i \in 1..n |-> [id |-> i, correct_answer |-> CorrectAnswer(i)]]]

\* The quizzes the backend may have generated, the one without questions included.
Quizzes == {Quiz(n) : n \in 0..MaxQuestions}

Min(a, b) == IF a <= b THEN a ELSE b

Max(a, b) == IF a >= b THEN a ELSE b

\* Math.round((correct / total) * 100); <<>> is NaN, the value of 0 / 0.
Percentage(correct, total) ==
    IF total = 0 THEN <<>> ELSE <<(200 * correct + total) \div (2 * total)>>

\* getScore() in hook state st: <<>> for null, else <<the score>>.
GetScore(st) ==
    IF st.quiz = <<>> \/ ~st.submitted THEN <<>>
    ELSE LET questions == st.quiz[1].questions
             correct == Cardinality({i \in 1..Len(questions) :
                            st.answers[questions[i].id] = questions[i].correct_answer})
         IN  <<[correct |-> correct, total |-> Len(questions),
                percentage |-> Percentage(correct, Len(questions))]>>

\* ---------------------------------------------- streamChat: the transport

Terminal == {"completed", "errored", "cancelled"}

\* The state streamChat returns in: the request issued, nothing received.
NewConn == [phase |-> "connecting", buffer |-> <<>>, pending |-> <<>>, aborted |-> FALSE]

IdleConn == [phase |-> "completed", buffer |-> <<>>, pending |-> <<>>, aborted |-> FALSE]

HttpMessage(status) ==
    CASE status = 404 -> "HTTP 404"
      [] status = 500 -> "HTTP 500"

HttpError(status) == [name |-> "Error", message |-> HttpMessage(status)]

NoBodyError == [name |-> "Error", message |-> "No response body"]

NetworkError == [name |-> "TypeError", message |-> "network error"]

AbortError == [name |-> "AbortError", message |-> "The operation was aborted"]

ResponseOk(status) == status >= 200 /\ status <= 299

Statuses == {200, 500}

\* The .catch handler: the onError calls it makes.
CatchReportsAll(err) == <<err>>

CatchHandler(err) == IF err.name # "AbortError" THEN <<err>> ELSE <<>>

\* The returned handle, () => controller.abort(): the first call on a request
\* still under way errors it with an AbortError (delivered to the promise chain
\* later); any other call only leaves the signal aborted.
AbortRearms(st) == [st EXCEPT !.aborted = TRUE, !.phase = "aborting"]

Abort(st) ==
    IF ~st.aborted /\ st.phase \in {"connecting", "reading"}
    THEN [st EXCEPT !.aborted = TRUE, !.phase = "aborting"]
    ELSE [st EXCEPT !.aborted = TRUE]

OnResponseReadsAnyway(st, status, hasBody) ==
    [st |-> [st EXCEPT !.phase = "reading"], errors |-> <<>>]

\* The .then callback on the response: throws on a bad status or a missing body
\* (the .catch handler then runs), else starts reading.
OnResponse(st, status, hasBody) ==
    IF ~ResponseOk(status)
    THEN [st |-> [st EXCEPT !.phase = "errored"], errors |-> CatchHandler(HttpError(status))]
    ELSE IF ~hasBody
    THEN [st |-> [st EXCEPT !.phase = "errored"], errors |-> CatchHandler(NoBodyError)]
    ELSE [st |-> [st EXCEPT !.phase = "reading"], errors |-> <<>>]

\* fetch or reader.read() rejects: the .catch handler runs.
OnReject(st, err) ==
    [st |-> [st EXCEPT !.phase = IF err.name = "AbortError" THEN "cancelled" ELSE "errored"],
     errors |-> CatchHandler(err)]

\* One turn of the read loop on a chunk of bytes: the transport state after it,
\* the onEvent calls it makes in order, and the onError calls of the .catch
\* handler should the loop throw.
ReadChunk(st, value) ==
    LET d == Decode(st.pending, value)
        p == PopLast(Split(st.buffer \o d.chars))
        r == ParseLines(p.lines)
        read == [st EXCEPT !.buffer = p.buffer, !.pending = d.pending]
    IN  IF r.thrown = <<>>
        THEN [st |-> read, events |-> r.events, errors |-> <<>>]
        ELSE [st |-> [read EXCEPT !.phase = "errored"], events |-> r.events,
              errors |-> CatchHandler(r.thrown[1])]

\* reader.read() resolves with done: the loop breaks and the chain settles.
OnBodyEnd(st) == [st EXCEPT !.phase = "completed"]

\* ------------------------------------------------- SpecTransport: inputs

Line(payload) == DataPrefix \o payload \o <<NL>>

ChunkA == Line(ChunkOpen \o <<"a">> \o ChunkClose)

ChunkE9 == Line(ChunkOpen \o <<"C3", "A9">> \o ChunkClose)

DoneLine == Line(DoneJSON)

BadLine == Line(<<"n", "o", "t", "-", "j", "s", "o", "n">>)

PingLine == <<":", " ", "p", "i", "n", "g", NL>>

LineKinds == {"chunkA", "chunkE9", "done", "bad", "ping"}

LineBytes(k) ==
    CASE k = "chunkA" -> ChunkA
      [] k = "chunkE9" -> ChunkE9
      [] k = "done" -> DoneLine
      [] k = "bad" -> BadLine
      [] k = "ping" -> PingLine

\* What a complete line of each kind is meant to produce.
LineEvents(k) ==
    CASE k = "chunkA" -> <<SSEChunkEvent(<<"a">>)>>
      [] k = "chunkE9" -> <<SSEChunkEvent(<<"E9">>)>>
      [] k = "done" -> <<SSEDoneEvent>>
      [] k = "bad" -> <<>>
      [] k = "ping" -> <<>>

RECURSIVE KindsBytes(_)
KindsBytes(ks) == IF ks = <<>> THEN <<>> ELSE LineBytes(Head(ks)) \o KindsBytes(Tail(ks))

KindSeqs == UNION {[1..n -> LineKinds] : n \in 0..MaxLines}

\* A body: complete lines, then possibly a last line with no newline.
Tails == {<<>>, SubSeq(DoneLine, 1, Len(DoneLine) - 1)}

\* The longest body: no line is longer than the sources-free chunk line.
MaxBody == (MaxLines + 1) * Len(ChunkE9)

WireRecs == {[kinds |-> ks, bytes |-> KindsBytes(ks) \o t] : ks \in KindSeqs, t \in Tails}

\* ------------------------------------------------ SpecTransport: actions

IdleSession ==
    /\ kbId = Null
    /\ messages = <<>>
    /\ loading = FALSE
    /\ error = Null
    /\ abortRef = NoStream
    /\ streams = <<>>
    /\ now = 0
    /\ histReqs = <<>>
    /\ clearReqs = <<>>
    /\ server = <<>>
    /\ quiet = NoStream
    /\ steps = 0

\* streamChat has just returned its cancel handle.
InitTransport ==
    /\ IdleSession
    /\ wire \in WireRecs
    /\ pos = 0
    /\ conn = NewConn
    /\ evlog = <<>>
    /\ errlog = <<>>
    /\ cancels = 0
    /\ cut = [line |-> FALSE, char |-> FALSE]
    /\ resp = <<>>
    /\ call = <<>>
    /\ state = NoQuiz

CallFetchResolves(status, hasBody) ==
    /\ conn.phase = "connecting"
    /\ LET r == OnResponse(conn, status, hasBody) IN
        /\ conn' = r.st
        /\ errlog' = errlog \o r.errors
    /\ resp' = <<[status |-> status, hasBody |-> hasBody]>>
    /\ UNCHANGED <<sessionVars, quizVars, wire, pos, evlog, cancels, cut, call>>

CallFetchRejects ==
    /\ conn.phase = "connecting"
    /\ LET r == OnReject(conn, NetworkError) IN
        /\ conn' = r.st
        /\ errlog' = errlog \o r.errors
    /\ UNCHANGED <<sessionVars, quizVars, wire, pos, evlog, cancels, cut, resp, call>>

\* reader.read() resolves with the next n bytes of the body.
CallReaderRead(n) ==
    /\ conn.phase = "reading"
    /\ pos + n <= Len(wire.bytes)
    /\ LET r == ReadChunk(conn, SubSeq(wire.bytes, pos + 1, pos + n)) IN
        /\ conn' = r.st
        /\ evlog' = evlog \o r.events
        /\ errlog' = errlog \o r.errors
        /\ cut' = [line |-> cut.line \/ r.st.buffer # <<>>,
                   char |-> cut.char \/ r.st.pending # <<>>]
    /\ pos' = pos + n
    /\ UNCHANGED <<sessionVars, quizVars, wire, cancels, resp, call>>

CallReaderDone ==
    /\ conn.phase = "reading"
    /\ pos = Len(wire.bytes)
    /\ conn' = OnBodyEnd(conn)
    /\ UNCHANGED <<sessionVars, quizVars, wire, pos, evlog, errlog, cancels, cut, resp, call>>

CallReaderRejects ==
    /\ conn.phase = "reading"
    /\ LET r == OnReject(conn, NetworkError) IN
        /\ conn' = r.st
        /\ errlog' = errlog \o r.errors
    /\ UNCHANGED <<sessionVars, quizVars, wire, pos, evlog, cancels, cut, resp, call>>

\* The caller calls the handle streamChat returned.
CallCancel ==
    /\ cancels < MaxCancels
    /\ conn' = Abort(conn)
    /\ cancels' = cancels + 1
    /\ UNCHANGED <<sessionVars, quizVars, wire, pos, evlog, errlog, cut, resp, call>>

\* The pending fetch or read rejects with the AbortError of the abort.
CallAbortRejects ==
    /\ conn.phase = "aborting"
    /\ LET r == OnReject(conn, AbortError) IN
        /\ conn' = r.st
        /\ errlog' = errlog \o r.errors
    /\ UNCHANGED <<sessionVars, quizVars, wire, pos, evlog, cancels, cut, resp, call>>

NextTransport ==
    \/ \E status \in Statuses, hasBody \in BOOLEAN : CallFetchResolves(status, hasBody)
    \/ CallFetchRejects
    \/ \E n \in 1..MaxBody : CallReaderRead(n)
    \/ CallReaderDone
    \/ CallReaderRejects
    \/ CallCancel
    \/ CallAbortRejects

SpecTransport == InitTransport /\ [][NextTransport]_vars

\* ------------------------------------------------------ useChat: values

KBs == {"A", "B"}

IsSpace(c) == c = " "

TrimKeepsSpaces(s) == s

\* String.prototype.trim
Trim(s) ==
    LET keep == {i \in 1..Len(s) : ~IsSpace(s[i])} IN
    IF keep = {} THEN <<>>
    ELSE SubSeq(s, CHOOSE i \in keep : \A j \in keep : i <= j,
                   CHOOSE i \in keep : \A j \in keep : i >= j)

\* What the user may have typed when submitting the form.
Inputs == {<<>>, <<" ">>, <<"q">>, <<" ", "q">>}

\* `user-${Date.now()}` and `assistant-${Date.now()}`
UserId(t) == <<"user-", t>>

AssistantId(t) == <<"assistant-", t>>

\* A LocalMessage; sources is <<>> for undefined, else <<the list>>, and an
\* absent isStreaming counts as false, as it does wherever the code reads it.
LocalMessage(id, role, content, sources, isStreaming) ==
    [id |-> id, role |-> role, content |-> content, sources |-> sources,
     isStreaming |-> isStreaming]

\* The history the backend holds when the app starts; its ids are its own.
PersistedHistory(kb) ==
    IF kb = "A"
    THEN <<[id |-> <<"msg-", 1>>, role |-> "user", content |-> <<"x">>],
           [id |-> <<"msg-", 2>>, role |-> "assistant", content |-> <<"y">>]>>
    ELSE <<[id |-> <<"msg-", 3>>, role |-> "user", content |-> <<"z">>]>>

\* history.map((m) => ({ id, role, content }))
FromHistory(history) ==
    [i \in 1..Len(history) |->
        LocalMessage(history[i].id, history[i].role, history[i].content, <<>>, FALSE)]

RequestFailed == "Request failed"

\* One more step of the session has been taken, of at most MaxSteps.
Tick == steps < MaxSteps /\ steps' = steps + 1

\* ------------------------------------------- useChat: the stream callbacks

\* The callbacks, were they to append the assistant message when it is missing.
Reappend(ui, assistantId) ==
    IF \E i \in 1..Len(ui.messages) : ui.messages[i].id = assistantId
    THEN ui
    ELSE [ui EXCEPT !.messages =
             Append(@, [id |-> assistantId, role |-> "assistant", content |-> <<>>,
                        sources |-> <<>>, isStreaming |-> FALSE])]

\* { ...m, content: m.content + event.data }
ReplaceContent(m, data) == [m EXCEPT !.content = data]

AppendChunk(m, data) == [m EXCEPT !.content = m.content \o data]

FinishKeepsStreaming(m, sources) == [m EXCEPT !.sources = sources]

\* { ...m, isStreaming: false, sources }
FinishMessage(m, sources) == [m EXCEPT !.isStreaming = FALSE, !.sources = sources]

\* The onEvent callback of sendMessage on the hook state it closes over:
\* ui = [messages, loading, error, sources], sources being the closure's variable.
OnEvent(ui, assistantId, event) ==
    IF event.type = "sources"
    THEN [ui EXCEPT !.sources = <<event.data>>]
    ELSE IF event.type = "chunk"
    THEN [ui EXCEPT !.messages =
            [i \in 1..Len(ui.messages) |->
                IF ui.messages[i].id = assistantId
                THEN AppendChunk(ui.messages[i], event.data)
                ELSE ui.messages[i]]]
    ELSE IF event.type = "done"
    THEN [ui EXCEPT !.messages =
            [i \in 1..Len(ui.messages) |->
                IF ui.messages[i].id = assistantId
                THEN FinishMessage(ui.messages[i], ui.sources)
                ELSE ui.messages[i]],
          !.loading = FALSE]
    ELSE ui

RECURSIVE OnEventsReappend(_, _, _)
OnEventsReappend(ui, assistantId, events) ==
    IF events = <<>> THEN ui
    ELSE OnEventsReappend(Reappend(OnEvent(ui, assistantId, Head(events)), assistantId),
                          assistantId, Tail(events))

RECURSIVE OnEvents(_, _, _)
OnEvents(ui, assistantId, events) ==
    IF events = <<>> THEN ui
    ELSE OnEvents(OnEvent(ui, assistantId, Head(events)), assistantId, Tail(events))

\* The onError callback of sendMessage: setError(err.message); setLoading(false).
OnError(ui, err) == [ui EXCEPT !.error = err.message, !.loading = FALSE]

\* -------------------------------------------------- useChat: the streams

\* What sendMessage keeps of a streamChat call: the transport, and the closure
\* of its callbacks (kbId, assistantId, sources). rx, doneSeen and at record what
\* the stream delivered to onEvent and where its assistant message was appended;
\* wiped is 1 once a clear has emptied the list while the stream was in flight,
\* and 2 once the stream has delivered an event after that.
NewStream(kb, assistantId, at) ==
    [conn |-> NewConn, kb |-> kb, assistantId |-> assistantId, sources |-> <<>>,
     rx |-> <<>>, doneSeen |-> FALSE, at |-> at, wiped |-> 0]

\* A slot of streams that holds no call under way. A promise chain that has
\* settled can do nothing more, so its slot is freed; abortRef, if it held that
\* call's handle, then holds Settled, a handle whose abort() does nothing.
FreeSlot ==
    [conn |-> [phase |-> "free", buffer |-> <<>>, pending |-> <<>>, aborted |-> FALSE],
     kb |-> Null, assistantId |-> <<"", 0>>, sources |-> <<>>,
     rx |-> <<>>, doneSeen |-> FALSE, at |-> 0, wiped |-> 0]

Settled == -1

Slots == 1..MaxStreams

Live(s) == streams[s].conn.phase # "free"

\* The chunk texts among events, in order, and whether a done frame is among them.
ChunkTexts(events) ==
    LET chunks == SelectSeq(events, LAMBDA e : e.type = "chunk") IN
    [i \in 1..Len(chunks) |-> chunks[i].data]

HasDone(events) == \E i \in 1..Len(events) : events[i].type = "done"

\* Nothing follows a done frame in events.
DoneLast(events) ==
    \A i \in 1..Len(events) : events[i].type = "done" => i = Len(events)

\* A step of stream s's promise chain with outcome r = [st, events, errors]: the
\* callbacks run on the hook state, in order, within the one continuation.
StreamStep(s, r) ==
    LET cl == streams[s]
        ui0 == [messages |-> messages, loading |-> loading, error |-> error,
                sources |-> cl.sources]
        ui1 == OnEvents(ui0, cl.assistantId, r.events)
        ui2 == IF r.errors = <<>> THEN ui1 ELSE OnError(ui1, r.errors[1])
        settles == r.st.phase \in Terminal
    IN  /\ messages' = ui2.messages
        /\ loading' = ui2.loading
        /\ error' = ui2.error
        /\ streams' = [streams EXCEPT ![s] =
               IF settles THEN FreeSlot
               ELSE [cl EXCEPT !.conn = r.st,
                               !.sources = ui2.sources,
                               !.rx = cl.rx \o ChunkTexts(r.events),
                               !.doneSeen = cl.doneSeen \/ HasDone(r.events),
                               !.wiped = IF cl.wiped = 1 /\ r.events # <<>>
                                         THEN 2 ELSE cl.wiped]]
        /\ abortRef' = IF settles /\ abortRef = s THEN Settled ELSE abortRef
        /\ Tick
        /\ quiet' = IF /\ quiet = s
                       /\ ~settles
                       /\ DoneLast(r.events)
                       /\ (cl.doneSeen => r.events = <<>>)
                    THEN s ELSE NoStream
        /\ UNCHANGED <<kbId, now, histReqs, clearReqs, server, transportVars, quizVars>>

\* The backend's answer, one character per chunk frame: a, b, a, ...
ReplyText(k) == IF k % 2 = 1 THEN <<"a">> ELSE <<"b">>

ChunkLine(k) == Line(ChunkOpen \o ReplyText(k) \o ChunkClose)

SourcesLine == Line(SourcesJSON)

\* What the network may deliver to stream s in one read: the line of the next
\* chunk of the answer, whole or in two halves, or a done, a sources or an
\* undecodable line.
Fragments(s) ==
    LET k == Len(streams[s].rx) + 1 IN
    {ChunkLine(k), SubSeq(ChunkLine(k), 1, Len(ChunkOpen)),
     SubSeq(ChunkLine(k), Len(ChunkOpen) + 1, Len(ChunkLine(k))),
     DoneLine, SourcesLine, BadLine}

FetchResolves(s, status, hasBody) ==
    /\ streams[s].conn.phase = "connecting"
    /\ LET r == OnResponse(streams[s].conn, status, hasBody) IN
        StreamStep(s, [st |-> r.st, events |-> <<>>, errors |-> r.errors])

FetchRejects(s) ==
    /\ streams[s].conn.phase = "connecting"
    /\ LET r == OnReject(streams[s].conn, NetworkError) IN
        StreamStep(s, [st |-> r.st, events |-> <<>>, errors |-> r.errors])

ReaderRead(s, value) ==
    /\ streams[s].conn.phase = "reading"
    /\ StreamStep(s, ReadChunk(streams[s].conn, value))

ReaderDone(s) ==
    /\ streams[s].conn.phase = "reading"
    /\ StreamStep(s, [st |-> OnBodyEnd(streams[s].conn), events |-> <<>>, errors |-> <<>>])

ReaderRejects(s) ==
    /\ streams[s].conn.phase = "reading"
    /\ LET r == OnReject(streams[s].conn, NetworkError) IN
        StreamStep(s, [st |-> r.st, events |-> <<>>, errors |-> r.errors])

AbortRejects(s) ==
    /\ streams[s].conn.phase = "aborting"
    /\ LET r == OnReject(streams[s].conn, AbortError) IN
        StreamStep(s, [st |-> r.st, events |-> <<>>, errors |-> r.errors])

\* ------------------------------------------------- useChat: operations

FirstFree == CHOOSE s \in Slots : ~Live(s) /\ \A u \in Slots : ~Live(u) => s <= u

NewMessagesSwapped(content, t1, t2) ==
    <<LocalMessage(AssistantId(t2), "assistant", <<>>, <<>>, TRUE),
      LocalMessage(UserId(t1), "user", Trim(content), <<>>, FALSE)>>

\* userMessage, then the assistantMessage placeholder, as sendMessage appends them.
NewMessages(content, t1, t2) ==
    <<LocalMessage(UserId(t1), "user", Trim(content), <<>>, FALSE),
      LocalMessage(AssistantId(t2), "assistant", <<>>, <<>>, TRUE)>>

\* sendMessage(content) with useStreaming = true, Date.now() returning t1 then t2.
SendMessage(content, t1, t2) ==
    IF kbId = Null \/ Trim(content) = <<>>
    THEN /\ Tick
         /\ UNCHANGED <<kbId, messages, loading, error, abortRef, streams, now,
                        histReqs, clearReqs, server, quiet, transportVars, quizVars>>
    ELSE /\ error' = Null
         /\ loading' = TRUE
         /\ messages' = messages \o NewMessages(content, t1, t2)
         /\ streams' = [streams EXCEPT ![FirstFree] =
                           NewStream(kbId, AssistantId(t2), Len(messages) + 2)]
         /\ abortRef' = FirstFree
         /\ Tick
         /\ quiet' = FirstFree
         /\ now' = t2
         /\ UNCHANGED <<kbId, histReqs, clearReqs, server, transportVars, quizVars>>

\* Chat.handleSubmit: the form is submitted with input typed.
HandleSubmit(input, t1, t2) ==
    /\ \E s \in Slots : ~Live(s)
    /\ t1 \in {now, now + 1} /\ t2 \in {t1, t1 + 1} /\ t2 <= MaxClock
    /\ IF Trim(input) = <<>> \/ loading
       THEN UNCHANGED vars
       ELSE SendMessage(input, t1, t2)

StopKeepsFlag(m) == m

\* m.isStreaming ? { ...m, isStreaming: false } : m
StopMessage(m) == IF m.isStreaming THEN [m EXCEPT !.isStreaming = FALSE] ELSE m

\* The Stop button, rendered while loading, calls stopStreaming.
StopStreaming ==
    /\ loading
    /\ IF abortRef # NoStream
       THEN /\ streams' = IF abortRef = Settled THEN streams
                          ELSE [streams EXCEPT ![abortRef].conn = Abort(@)]
            /\ abortRef' = NoStream
            /\ loading' = FALSE
            /\ messages' = [i \in 1..Len(messages) |-> StopMessage(messages[i])]
            /\ Tick
            /\ quiet' = NoStream
            /\ UNCHANGED <<kbId, error, now, histReqs, clearReqs, server,
                           transportVars, quizVars>>
       ELSE UNCHANGED vars

Remove(q, i) == SubSeq(q, 1, i - 1) \o SubSeq(q, i + 1, Len(q))

\* clearHistory up to its await: the DELETE request is issued for kbId.
ClearHistory ==
    /\ Len(clearReqs) < MaxClears
    /\ clearReqs' = Append(clearReqs, [kb |-> kbId])
    /\ Tick
    /\ quiet' = NoStream
    /\ UNCHANGED <<kbId, messages, loading, error, abortRef, streams, now,
                   histReqs, server, transportVars, quizVars>>

ClearKeepsMessages(prev) == prev

\* setMessages([])
ClearedMessages(prev) == <<>>

\* The DELETE succeeds: the backend has cleared, then setMessages([]).
ClearResolves(i) ==
    /\ i \in 1..Len(clearReqs)
    /\ server' = [server EXCEPT ![clearReqs[i].kb] = <<>>]
    /\ messages' = ClearedMessages(messages)
    /\ clearReqs' = Remove(clearReqs, i)
    /\ streams' = [s \in Slots |->
                      IF streams[s].conn.phase \in {"connecting", "reading"}
                         /\ ~streams[s].doneSeen /\ streams[s].wiped = 0
                      THEN [streams[s] EXCEPT !.wiped = 1] ELSE streams[s]]
    /\ Tick
    /\ quiet' = NoStream
    /\ UNCHANGED <<kbId, loading, error, abortRef, now, histReqs, transportVars, quizVars>>

\* The DELETE fails: setError(e.message).
ClearRejects(i) ==
    /\ i \in 1..Len(clearReqs)
    /\ error' = RequestFailed
    /\ clearReqs' = Remove(clearReqs, i)
    /\ Tick
    /\ quiet' = NoStream
    /\ UNCHANGED <<kbId, messages, loading, abortRef, streams, now, histReqs,
                   server, transportVars, quizVars>>

\* The kbId prop changes while Chat stays mounted: the effect runs loadHistory.
SelectKb(kb) ==
    /\ kb # kbId
    /\ Len(histReqs) < MaxPending
    /\ kbId' = kb
    /\ histReqs' = Append(histReqs, [kb |-> kb])
    /\ Tick
    /\ quiet' = NoStream
    /\ UNCHANGED <<messages, loading, error, abortRef, streams, now,
                   clearReqs, server, transportVars, quizVars>>

\* api.getChatHistory resolves: setMessages(history.map(...)).
HistoryResolves(i) ==
    /\ i \in 1..Len(histReqs)
    /\ messages' = FromHistory(server[histReqs[i].kb])
    /\ histReqs' = Remove(histReqs, i)
    /\ Tick
    /\ quiet' = NoStream
    /\ UNCHANGED <<kbId, loading, error, abortRef, streams, now, clearReqs,
                   server, transportVars, quizVars>>

\* api.getChatHistory rejects: console.error only.
HistoryRejects(i) ==
    /\ i \in 1..Len(histReqs)
    /\ histReqs' = Remove(histReqs, i)
    /\ Tick
    /\ quiet' = NoStream
    /\ UNCHANGED <<kbId, messages, loading, error, abortRef, streams, now,
                   clearReqs, server, transportVars, quizVars>>

IdleTransport ==
    /\ wire = [kinds |-> <<>>, bytes |-> <<>>]
    /\ pos = 0
    /\ conn = IdleConn
    /\ evlog = <<>>
    /\ errlog = <<>>
    /\ cancels = 0
    /\ cut = [line |-> FALSE, char |-> FALSE]
    /\ resp = <<>>

\* Chat has just been mounted for knowledge base A: fresh hook state, and the
\* effect has called loadHistory. (Unmounting discards the hook state, and the
\* callbacks of requests still under way then set state on no component; a later
\* mount starts here again.)
Init ==
    /\ kbId = "A"
    /\ messages = <<>>
    /\ loading = FALSE
    /\ error = Null
    /\ abortRef = NoStream
    /\ streams = [s \in Slots |-> FreeSlot]
    /\ now = 0
    /\ histReqs = <<[kb |-> kbId]>>
    /\ clearReqs = <<>>
    /\ server = [kb \in KBs |-> PersistedHistory(kb)]
    /\ quiet = NoStream
    /\ steps = 0
    /\ IdleTransport
    /\ call = <<>>
    /\ state = NoQuiz

Next ==
    \/ \E kb \in KBs : SelectKb(kb)
    \/ \E input \in Inputs, t1, t2 \in 0..MaxClock : HandleSubmit(input, t1, t2)
    \/ StopStreaming
    \/ ClearHistory
    \/ \E i \in 1..MaxClears : ClearResolves(i)
    \/ \E i \in 1..MaxClears : ClearRejects(i)
    \/ \E i \in 1..MaxPending : HistoryResolves(i)
    \/ \E i \in 1..MaxPending : HistoryRejects(i)
    \/ \E s \in Slots :
          \/ \E status \in Statuses, hasBody \in BOOLEAN : FetchResolves(s, status, hasBody)
          \/ FetchRejects(s)
          \/ \E value \in Fragments(s) : ReaderRead(s, value)
          \/ ReaderDone(s)
          \/ ReaderRejects(s)
          \/ AbortRejects(s)

Spec == Init /\ [][Next]_vars

\* --------------------------------------------------------------- SpecSend

\* Hook states sendMessage may be called in: just mounted, history loaded, and
\* history loaded with a failed clear; without a knowledge base the effect has
\* emptied the list.
HookStates ==
    {[messages |-> <<>>, error |-> Null],
     [messages |-> FromHistory(PersistedHistory("A")), error |-> Null],
     [messages |-> FromHistory(PersistedHistory("A")), error |-> RequestFailed]}

InitSend ==
    /\ kbId \in KBs \cup {Null}
    /\ \E h \in HookStates : messages = h.messages /\ error = h.error
    /\ kbId = Null => messages = <<>>
    /\ loading = FALSE
    /\ abortRef = NoStream
    /\ streams = [s \in Slots |-> FreeSlot]
    /\ now = 0
    /\ histReqs = <<>>
    /\ clearReqs = <<>>
    /\ server = [kb \in KBs |-> PersistedHistory(kb)]
    /\ quiet = NoStream
    /\ steps = 0
    /\ IdleTransport
    /\ call \in {<<input>> : input \in Inputs}
    /\ state = NoQuiz

\* sendMessage(call) is called, whatever loading is.
CallSendMessage(t1, t2) ==
    /\ \E s \in Slots : ~Live(s)
    /\ t1 \in {now, now + 1} /\ t2 \in {t1, t1 + 1} /\ t2 <= MaxClock
    /\ SendMessage(call[1], t1, t2)

NextSend == \E t1, t2 \in 0..MaxClock : CallSendMessage(t1, t2)

SpecSend == InitSend /\ [][NextSend]_vars

\* --------------------------------------------- SpecTransport: properties

\* C1  Frame-boundary invariance: however the body delivered so far was cut into
\* fragments (mid-line and mid-character cuts included), the onEvent calls made
\* are those of delivering the same bytes as one single fragment, in the same
\* order; so any two ways of cutting a body give the same calls.
C1_CutInvariance ==
    evlog = ReadChunk(NewConn, SubSeq(wire.bytes, 1, pos)).events

\* Reached: a body read to its end whose fragments ended inside a line and inside
\* the two-byte character, with both of its frames emitted.
C1_Witness ==
    /\ conn.phase = "completed"
    /\ cut.line /\ cut.char
    /\ evlog = <<SSEChunkEvent(<<"E9">>), SSEDoneEvent>>

\* The complete lines among the bytes delivered so far.
LinesDelivered == Cardinality({i \in 1..pos : wire.bytes[i] = NL})

\* C8  Malformed and non-data lines are dropped without effect: the onEvent calls
\* made are exactly the frames of the well-formed data lines delivered, in order
\* (a bad or a comment line adds none and stops nothing after it), and onError is
\* never called for a line: it is called at most once, with a transport error.
C8_BadLinesDropped ==
    /\ evlog = Flatten([i \in 1..LinesDelivered |-> LineEvents(wire.kinds[i])])
    /\ \A i \in 1..Len(errlog) : errlog[i].name # "SyntaxError"
    /\ errlog # <<>> => conn.phase = "errored" /\ Len(errlog) = 1

\* Reached: "data: not-json" then a done frame, read to the end: the done frame
\* was emitted, nothing else, and no error was reported.
C8_Witness ==
    /\ wire.kinds = <<"bad", "done">>
    /\ conn.phase = "completed"
    /\ evlog = <<SSEDoneEvent>>
    /\ errlog = <<>>

\* C9  Cancellation is silent and final: once the cancel handle has been called
\* no step calls onEvent or onError again, whether the call came while
\* connecting or while a read was pending between chunks.
C9_CancelSilent ==
    [][conn.aborted => evlog' = evlog /\ errlog' = errlog]_vars

\* Reached: a stream cancelled between chunks, after a frame and before the rest
\* of the body, whose rejection has been handled.
C9_Witness ==
    /\ conn.phase = "cancelled"
    /\ evlog # <<>>
    /\ pos < Len(wire.bytes)
    /\ errlog = <<>>

\* C10  cancel is idempotent: a call of the handle after an earlier call, or after
\* the stream has ended (body finished, error reported), leaves the transport
\* where it is and calls neither onEvent nor onError, and an ended stream makes no
\* callback later. (The AbortSignal's own aborted flag, which nothing reads, is
\* set by the first call even after the end.)
C10_CancelIdempotent ==
    [][/\ (cancels' # cancels /\ (conn.aborted \/ conn.phase \in Terminal))
            => /\ conn'.phase = conn.phase
               /\ conn'.buffer = conn.buffer /\ conn'.pending = conn.pending
               /\ evlog' = evlog /\ errlog' = errlog
       /\ conn.phase \in Terminal
            => conn'.phase = conn.phase /\ evlog' = evlog /\ errlog' = errlog]_vars

\* Reached: the handle called twice after the body finished normally.
C10_Witness ==
    /\ cancels = 2
    /\ conn.phase = "completed"
    /\ conn.aborted
    /\ evlog # <<>>

\* The response fetch resolved with is a failed connection: a status that is not
\* a success, or no body.
FailedConnection ==
    /\ resp # <<>>
    /\ ~ResponseOk(resp[1].status) \/ ~resp[1].hasBody

\* C11  Failed connection: once the response has a non-success status or no
\* body, onError has been called exactly once, with that failure, and onEvent is
\* never called, whatever the caller and the network do afterwards.
C11_FailedConnection ==
    FailedConnection =>
        /\ evlog = <<>>
        /\ errlog = <<IF ~ResponseOk(resp[1].status)
                      THEN HttpError(resp[1].status) ELSE NoBodyError>>

\* Reached: a 200 response without a body, and the handle called afterwards.
C11_Witness ==
    /\ resp = <<[status |-> 200, hasBody |-> FALSE]>>
    /\ errlog = <<NoBodyError>>
    /\ cancels > 0
    /\ wire.bytes # <<>>

\* A done frame has been delivered to onEvent.
DoneDelivered == \E i \in 1..Len(evlog) : evlog[i].type = "done"

\* C17  Exactly one terminal outcome per stream: once a done frame has been
\* delivered, onError is not called for the stream and no further frame is
\* delivered to onEvent.
C17_OneTerminalOutcome ==
    [][DoneDelivered => evlog' = evlog /\ errlog' = errlog]_vars

\* ------------------------------------------------------ Spec: properties

\* Stream s is in flight: its send was accepted and it has reached neither done,
\* nor an error (which settles it), nor stop.
InFlight(s) ==
    /\ streams[s].conn.phase \in {"connecting", "reading"}
    /\ ~streams[s].doneSeen

\* This step is an accepted send: a streamChat call is started.
SendAccepted ==
    \E s \in Slots : streams[s].conn.phase = "free" /\ streams'[s].conn.phase = "connecting"

\* C2  Single-flight rejection: while a stream is in flight, no send is accepted:
\* no step appends the two messages of a send and starts a second request.
C2_SingleFlight ==
    [][(\E s \in Slots : InFlight(s)) => ~SendAccepted]_vars

\* C3  Single-flight state invariant: at most one message of the list has
\* isStreaming true.
C3_OneStreaming ==
    Cardinality({i \in 1..Len(messages) : messages[i].isStreaming}) <= 1

\* C4  Stale-stream suppression: the first chunk or done event of a stream whose
\* send was made for another knowledge base than the active one (the switch came
\* before any chunk) leaves the message list as it is.
C4_StaleSuppressed ==
    [][\A s \in Slots :
          (/\ Live(s)
           /\ streams[s].kb # kbId
           /\ streams[s].rx = <<>> /\ ~streams[s].doneSeen
           /\ streams'[s].rx # <<>> \/ streams'[s].doneSeen)
          => messages' = messages]_vars

\* C5  Chunk accumulation: when nothing but its own stream has acted since a send
\* was accepted, and that stream has delivered chunks and then done, the message
\* the send appended as its assistant message is still at its place with the id
\* it was created with, its content is the chunks' texts concatenated in arrival
\* order, and it is no longer streaming.
C5_ChunkAccumulation ==
    \A s \in Slots :
        (quiet = s /\ streams[s].doneSeen) =>
            LET cl == streams[s] IN
            /\ cl.at <= Len(messages)
            /\ messages[cl.at].id = cl.assistantId
            /\ messages[cl.at].role = "assistant"
            /\ messages[cl.at].content = Flatten(cl.rx)
            /\ ~messages[cl.at].isStreaming

\* Reached: a send whose stream delivered the chunks a and b and then done.
C5_Witness ==
    \E s \in Slots :
        /\ quiet = s /\ streams[s].doneSeen
        /\ streams[s].rx = <<<<"a">>, <<"b">>>>
        /\ messages[streams[s].at].content = <<"a", "b">>

\* C6  stop during a stream: the step in which stopStreaming finds a handle leaves
\* no message streaming, every message's content as it was, loading false and
\* error as it was; and no step of a cancelled stream changes the messages,
\* loading or error.
C6_StopFreezes ==
    [][/\ (abortRef # NoStream /\ abortRef' = NoStream)
            => /\ Len(messages') = Len(messages)
               /\ \A i \in 1..Len(messages) :
                     /\ ~messages'[i].isStreaming
                     /\ messages'[i].content = messages[i].content
                     /\ messages'[i].id = messages[i].id
               /\ ~loading'
               /\ error' = error
       /\ \A s \in Slots :
            (streams[s].conn.aborted /\ streams'[s] # streams[s])
            => messages' = messages /\ loading' = loading /\ error' = error]_vars

\* Reached: stop was called with only the chunk a received; the message keeps it,
\* is not streaming, no error is recorded, and the cancelled stream has since
\* settled.
C6_Witness ==
    /\ abortRef = NoStream /\ ~loading /\ error = Null
    /\ \A s \in Slots : ~Live(s)
    /\ \E i \in 1..Len(messages) :
          /\ messages[i].role = "assistant"
          /\ messages[i].content = <<"a">>
          /\ messages[i].sources = <<>>
          /\ ~messages[i].isStreaming
    /\ \A i \in 1..Len(messages) : messages[i].role = "assistant" => messages[i].content = <<"a">>

\* This step settles stream s by its onError callback: the call is rejected
\* while connecting, or a later rejection changes the error.
ErrorFired(s) ==
    /\ Live(s) /\ ~streams[s].conn.aborted
    /\ streams'[s].conn.phase = "free"
    /\ streams[s].conn.phase = "connecting" \/ error' # error

\* C7  Transport error: when a stream's onError fires, the assistant message of
\* its send is no longer streaming and keeps its content, error is the error's
\* message and loading is false.
C7_ErrorFinishes ==
    [][\A s \in Slots :
          (/\ ErrorFired(s)
           /\ streams[s].at <= Len(messages)
           /\ messages[streams[s].at].id = streams[s].assistantId)
          => /\ Len(messages') = Len(messages)
             /\ ~messages'[streams[s].at].isStreaming
             /\ messages'[streams[s].at].content = messages[streams[s].at].content
             /\ error' # Null
             /\ ~loading']_vars

\* This step is the end of stream s's body: reader.read() resolves with done, the
\* loop breaks and the chain settles with no callback. (A rejected read settles
\* the chain too, but sets error to the network error's message.)
BodyEnded(s) ==
    /\ streams[s].conn.phase = "reading"
    /\ streams'[s].conn.phase = "free"
    /\ error # NetworkError.message
    /\ error' = error

\* C12  Every stream that ends is finalised: when the body of a send's stream
\* reaches its end, done frame or not, the assistant message of the send is no
\* longer streaming and loading is false. (The chain has settled, so no later
\* callback of the stream can bring this about: what does not hold at the end of
\* the body is not brought about by the stream at all.)
C12_EndFinalises ==
    [][\A s \in Slots :
          (/\ BodyEnded(s)
           /\ quiet = s
           /\ streams[s].at <= Len(messages)
           /\ messages[streams[s].at].id = streams[s].assistantId)
          => /\ ~messages'[streams[s].at].isStreaming
             /\ ~loading']_vars

\* C13  clearHistory clears the local list only after the backend deletion
\* succeeds: the step that settles a clear request either empties the list and
\* leaves error alone, or leaves the list exactly as it is and sets error; it
\* empties the list when the backend has deleted a history, and leaves the list
\* alone when it sets the error; and issuing the request changes neither.
C13_ClearAfterSuccess ==
    [][/\ Len(clearReqs') < Len(clearReqs)
            => /\ \/ messages' = <<>> /\ error' = error
                  \/ messages' = messages /\ error' = RequestFailed
               /\ server' # server => messages' = <<>>
               /\ error' # error => messages' = messages /\ server' = server
       /\ Len(clearReqs') > Len(clearReqs)
            => messages' = messages /\ error' = error /\ server' = server]_vars

\* Reached: a clear request failed (error set) and a later one succeeded: the
\* backend holds no history for A and the list is empty.
C13_Witness ==
    /\ error = RequestFailed
    /\ server["A"] = <<>>
    /\ messages = <<>>
    /\ clearReqs = <<>>

\* ------------------------------------------------------ SpecSend: properties

Blank(text) == \A i \in 1..Len(text) : text[i] = " "

\* C14  Empty send is rejected without effect: a call of sendMessage with a text
\* of spaces only (the empty text included), or with no knowledge base selected,
\* leaves messages, loading, error and abortRef as they are and starts no request.
C14_EmptySendRejected ==
    [][(steps' # steps /\ (Blank(call[1]) \/ kbId = Null))
          => /\ messages' = messages
             /\ loading' = loading
             /\ error' = error
             /\ abortRef' = abortRef
             /\ streams' = streams]_vars

\* Reached: sendMessage was called with a single space on a session that has a
\* knowledge base, messages and an error.
C14_Witness ==
    /\ steps > 0
    /\ call = <<<<" ">>>>
    /\ kbId = "A"
    /\ messages # <<>> /\ error = RequestFailed

\* ------------------------------------------------- Spec: properties, continued

\* C15  Message ids are unique: no two messages of the list have the same id.
C15_UniqueIds ==
    \A i, j \in 1..Len(messages) : i # j => messages[i].id # messages[j].id

\* C16  Content is frozen once streaming ends: no step changes the content of an
\* assistant message that is in the list and no longer streaming.
C16_ContentFrozen ==
    [][\A i \in 1..Len(messages) :
          (/\ messages[i].role = "assistant"
           /\ ~messages[i].isStreaming
           /\ i <= Len(messages')
           /\ messages'[i].id = messages[i].id)
          => messages'[i].content = messages[i].content]_vars

\* C18  Sources are attached only at completion: a streaming message has no
\* sources; a step in which a stream only takes in a sources event changes no
\* message; and the sources of a message change only in a step of a stream with
\* that assistant id that has delivered done, after which the message is not
\* streaming.
C18_SourcesAtCompletion ==
    [][/\ \A i \in 1..Len(messages') :
             messages'[i].isStreaming => messages'[i].sources = <<>>
       /\ \A s \in Slots :
             (/\ Live(s)
              /\ streams'[s].sources # streams[s].sources
              /\ streams'[s].rx = streams[s].rx
              /\ streams'[s].doneSeen = streams[s].doneSeen)
             => messages' = messages
       /\ \A i \in 1..Len(messages) :
             (/\ i <= Len(messages')
              /\ messages'[i].id = messages[i].id
              /\ messages'[i].sources # messages[i].sources)
             => /\ ~messages'[i].isStreaming
                /\ \E s \in Slots :
                      /\ streams[s].assistantId = messages[i].id
                      /\ streams'[s].doneSeen
                      /\ messages'[i].sources = streams'[s].sources]_vars

\* Reached: sources, the chunk a and done were delivered: the message shows the
\* sources and is not streaming.
C18_Witness ==
    \E s \in Slots :
        /\ quiet = s /\ streams[s].doneSeen
        /\ streams[s].rx = <<<<"a">>>>
        /\ messages[streams[s].at].sources # <<>>
        /\ ~messages[streams[s].at].isStreaming

\* C19  clearHistory during a stream does not resurrect messages: once a clear
\* has emptied the list while a stream was in flight, no step of that stream
\* changes the length of the list, so its chunk, sources and done events leave
\* the emptied list empty.
C19_NoResurrection ==
    [][\A s \in Slots :
          (streams[s].wiped > 0 /\ streams'[s] # streams[s])
          => /\ Len(messages') = Len(messages)
             /\ messages = <<>> => messages' = <<>>]_vars

\* Reached: the list was cleared while a stream was in flight, the stream then
\* delivered a chunk and done, and the list is empty.
C19_Witness ==
    \E s \in Slots :
        /\ streams[s].wiped = 2
        /\ streams[s].rx # <<>> /\ streams[s].doneSeen
        /\ messages = <<>>
        /\ server["A"] = <<>>

\* C20  History responses are applied only for the active knowledge base: the
\* step that settles a history request made for a knowledge base that is no
\* longer the active one leaves the message list as it is.
C20_HistoryForActiveKb ==
    [][\A i \in 1..Len(histReqs) :
          (histReqs' = Remove(histReqs, i) /\ histReqs[i].kb # kbId)
          => messages' = messages]_vars

\* C21  History replacement never happens while a stream is in flight: the step
\* that settles a history request while loading is set leaves the message list
\* as it is.
C21_NoLoadWhileLoading ==
    [][(Len(histReqs') < Len(histReqs) /\ loading) => messages' = messages]_vars

\* This step runs a terminal callback of stream s: the stream delivers done, or
\* its chain settles (by onError, by the end of the body, or silently).
TerminalStep(s) ==
    /\ Live(s)
    /\ \/ ~streams[s].doneSeen /\ streams'[s].doneSeen
       \/ streams'[s].conn.phase = "free"

\* C22  A stale stream cannot touch the new session's status: a terminal step of
\* a stream whose send was made for another knowledge base than the active one
\* changes neither error nor loading.
C22_StaleStatusUntouched ==
    [][\A s \in Slots :
          (TerminalStep(s) /\ streams[s].kb # kbId)
          => error' = error /\ loading' = loading]_vars

\* C23  Session reset on knowledge-base change: the step that changes the active
\* knowledge base leaves the message list empty, and the list is empty whenever
\* no knowledge base is selected.
C23_ResetOnSwitch ==
    [][/\ kbId' # kbId => messages' = <<>>
       /\ kbId' = Null => messages' = <<>>]_vars

\* C24  History-load failures are surfaced: the step that settles a history
\* request either installs the history the backend holds for the requested
\* knowledge base, or leaves error set to a non-null value.
C24_LoadFailureSurfaced ==
    [][Len(histReqs') < Len(histReqs) =>
          \E i \in 1..Len(histReqs) :
             /\ histReqs' = Remove(histReqs, i)
             /\ \/ messages' = FromHistory(server[histReqs[i].kb])
                \/ error' # Null]_vars

\* ------------------------------------------- SpecSend: properties, continued

\* c is text without its leading and trailing spaces, and is not empty.
IsTrimOf(c, text) ==
    /\ c # <<>> /\ c[1] # " " /\ c[Len(c)] # " "
    /\ \E a \in 0..Len(text) :
          /\ a + Len(c) <= Len(text)
          /\ SubSeq(text, a + 1, a + Len(c)) = c
          /\ Blank(SubSeq(text, 1, a))
          /\ Blank(SubSeq(text, a + Len(c) + 1, Len(text)))

\* C25  Accepted send appends exactly two messages in order: the step of an
\* accepted sendMessage(text) keeps every earlier message at its place and
\* appends a user message whose content is the trimmed text, not streaming, and
\* right after it an assistant message with empty content, streaming.
C25_SendAppendsTwo ==
    [][SendAccepted =>
          LET n == Len(messages) IN
          /\ Len(messages') = n + 2
          /\ SubSeq(messages', 1, n) = messages
          /\ messages'[n + 1].role = "user"
          /\ IsTrimOf(messages'[n + 1].content, call[1])
          /\ ~messages'[n + 1].isStreaming
          /\ messages'[n + 2].role = "assistant"
          /\ messages'[n + 2].content = <<>>
          /\ messages'[n + 2].isStreaming]_vars

\* Reached: sendMessage(" q") was accepted on a session showing a loaded
\* history, which now ends with the user message q and the streaming placeholder.
C25_Witness ==
    /\ steps = 1
    /\ call = <<<<" ", "q">>>>
    /\ Len(messages) = 4
    /\ messages[1].content = <<"x">> /\ messages[2].content = <<"y">>
    /\ messages[3].content = <<"q">> /\ messages[4].isStreaming
    /\ loading

\* ------------------------------------------------- Spec: properties, continued

\* C26  The cancel handle tracks the in-flight stream: abortRef holds a handle
\* exactly while a stream is in flight (it is empty once the stream has
\* delivered done, failed or been stopped).
C26_HandleTracksStream ==
    (abortRef # NoStream) <=> (\E s \in Slots : InFlight(s))

\* ---------------------------------------- SpecTransport: properties, continued

\* The done frames among events.
DoneCount(events) == Len(SelectSeq(events, LAMBDA e : e.type = "done"))

\* C27  Unterminated final line is never emitted: there are never more onEvent
\* calls than newline-terminated lines delivered, and when the body has ended
\* with text left in the buffer, the done events emitted are those of the
\* complete done lines only.
C27_ResidueSilent ==
    /\ Len(evlog) <= LinesDelivered
    /\ (conn.phase = "completed" /\ conn.buffer # <<>>) =>
          DoneCount(evlog) = Len(SelectSeq(wire.kinds, LAMBDA k : k = "done"))

\* Reached: a chunk line followed by a done frame with no newline, read to the
\* end of the body: the chunk was emitted, the done frame stayed in the buffer.
C27_Witness ==
    /\ wire.kinds = <<"chunkA">>
    /\ pos = Len(wire.bytes) /\ pos > Len(ChunkA)
    /\ conn.phase = "completed"
    /\ conn.buffer = DataPrefix \o DoneJSON
    /\ evlog = <<SSEChunkEvent(<<"a">>)>>
    /\ errlog = <<>>

\* ------------------------------------------------- Spec: properties, continued

\* C28  clearHistory removes only what existed when it was invoked: when a clear
\* request settles and nothing but stream s has acted since the send of s was
\* accepted (so the clear was invoked before that send), the user message and
\* the assistant message of that send are still in the list, in order.
C28_ClearSparesLaterSend ==
    [][\A s \in Slots :
          (/\ Len(clearReqs') < Len(clearReqs)
           /\ quiet = s /\ Live(s)
           /\ streams[s].at <= Len(messages)
           /\ messages[streams[s].at].id = streams[s].assistantId)
          => \E i \in 2..Len(messages') :
                /\ messages'[i].id = streams[s].assistantId
                /\ messages'[i - 1] = messages[streams[s].at - 1]]_vars

\* --------------------------------------------------------------- SpecQuiz

InitQuiz ==
    /\ IdleSession
    /\ IdleTransport
    /\ call = <<>>
    /\ state = NoQuiz

StartQuiz(quiz) ==
    /\ state' = [quiz |-> <<quiz>>, currentIndex |-> 0,
                 answers |-> [q \in 1..MaxQuestions |-> Null], submitted |-> FALSE]
    /\ UNCHANGED <<sessionVars, transportVars>>

AnswerQuestion(questionId, answer) ==
    /\ state' = [state EXCEPT !.answers[questionId] = answer]
    /\ UNCHANGED <<sessionVars, transportVars>>

NextQuestion ==
    /\ state' = IF state.quiz = <<>> THEN state
                ELSE LET maxIndex == Len(state.quiz[1].questions) - 1 IN
                     [state EXCEPT !.currentIndex = Min(state.currentIndex + 1, maxIndex)]
    /\ UNCHANGED <<sessionVars, transportVars>>

PrevQuestion ==
    /\ state' = [state EXCEPT !.currentIndex = Max(state.currentIndex - 1, 0)]
    /\ UNCHANGED <<sessionVars, transportVars>>

SubmitQuiz ==
    /\ state' = [state EXCEPT !.submitted = TRUE]
    /\ UNCHANGED <<sessionVars, transportVars>>

ResetQuiz ==
    /\ state' = NoQuiz
    /\ UNCHANGED <<sessionVars, transportVars>>

NextQuiz ==
    \/ \E quiz \in Quizzes : StartQuiz(quiz)
    \/ \E questionId \in 1..MaxQuestions, answer \in Answers :
          AnswerQuestion(questionId, answer)
    \/ NextQuestion
    \/ PrevQuestion
    \/ SubmitQuiz
    \/ ResetQuiz

SpecQuiz == InitQuiz /\ [][NextQuiz]_vars

\* ------------------------------------------------------ SpecQuiz: properties

\* C29  Quiz index stays in range: currentIndex is never negative, whatever quiz
\* was started (one with no questions included) and whatever nextQuestion and
\* prevQuestion calls followed, and it is at most the number of questions minus
\* one whenever the quiz has a question.
C29_IndexInRange ==
    /\ 0 <= state.currentIndex
    /\ (state.quiz # <<>> /\ Len(state.quiz[1].questions) >= 1) =>
          state.currentIndex <= Len(state.quiz[1].questions) - 1

\* C30  Quiz score is fixed at submission: getScore returns null while the quiz
\* is not submitted, a score has 0 <= correct <= total = number of questions,
\* and a step from a scored state to a scored state leaves the correct count as
\* it is (resetQuiz and startQuiz lead to a state without a score).
C30_ScoreFixed ==
    [][/\ ~state'.submitted => GetScore(state') = <<>>
       /\ GetScore(state') # <<>> =>
             /\ 0 <= GetScore(state')[1].correct
             /\ GetScore(state')[1].correct <= GetScore(state')[1].total
             /\ GetScore(state')[1].total = Len(state'.quiz[1].questions)
       /\ (GetScore(state) # <<>> /\ GetScore(state') # <<>>) =>
             GetScore(state')[1].correct = GetScore(state)[1].correct]_vars

====
